---- MODULE Spec2Model ----
(***************************************************************************)
(* Euler method CLI (src/euler.cpp): the table stepper eulersMethod, the   *)
(* rounder roundToPrecision and the direction-field printer printDField.   *)
(*                                                                         *)
(* A double is modelled as an exact rational [n |-> numerator, d |->       *)
(* denominator] in lowest terms with d > 0; d = 0 stands for +infinity     *)
(* (the quotient ystep / 0.0).  Binary floating-point error is not         *)
(* modelled: every decimal input is taken as its exact decimal value.      *)
(***************************************************************************)
EXTENDS Integers, Sequences, FiniteSets, TLC

VARIABLES
    args,     \* the arguments main hands to eulersMethod / printDField
    pc,       \* position of the program
    x,        \* eulersMethod: x;  printDField: x of the running loop
    y,        \* eulersMethod: y;  printDField: y of the running loop
    step,     \* eulersMethod: step after rounding; printDField: curve step
    values,   \* eulersMethod: std::vector<stepValues> values
    buffer,   \* printDField: std::ostringstream buffer, one entry per item
    first,    \* printDField: bool first of the curve loop
    out,      \* what has been written to std::cout
    err,      \* message of the std::runtime_error thrown, or "none"
    rnd,      \* rounder harness: value, precision, and the results
    hist      \* repeated invocation: run number, both argument sets, run 1

vars == <<args, pc, x, y, step, values, buffer, first, out, err, rnd, hist>>

(***************************************************************************)
(* Bounds of the model.                                                    *)
(***************************************************************************)
MaxPrecision == 2
MaxRecords == 14
MaxRoundNum == 40

(* precision of the README's examples *)
ReadmePrecision == 6

(***************************************************************************)
(* Exact arithmetic standing for double arithmetic.                        *)
(***************************************************************************)
Abs(a) == IF a < 0 THEN -a ELSE a

\* Euclid's algorithm, as a function so that each remainder is computed once
gcd[p \in Nat \X Nat] == IF p[2] = 0 THEN p[1] ELSE gcd[<<p[2], p[1] % p[2]>>]
GCD(a, b) == gcd[<<a, b>>]

RECURSIVE Pow10(_)
Pow10(k) == IF k = 0 THEN 1 ELSE 10 * Pow10(k - 1)

Inf == [n |-> 1, d |-> 0]
Rat == [n : Int, d : Nat]

\* The arithmetic is written as functions of its operands: an operand is then
\* computed once, however often the body reads it.
norm[p \in Int \X Int] ==
    LET g == GCD(Abs(p[1]), Abs(p[2]))
        s == IF p[2] < 0 THEN -1 ELSE 1
    IN  [n |-> s * (p[1] \div g), d |-> s * (p[2] \div g)]
R(num, den) == norm[<<num, den>>]

Z(k) == [n |-> k, d |-> 1]

IsInf(a) == a.d = 0

radd[p \in Rat \X Rat] ==
    LET a == p[1]
        b == p[2]
        g == GCD(a.d, b.d)
    IN  IF IsInf(a) \/ IsInf(b) THEN Inf
        ELSE R(a.n * (b.d \div g) + b.n * (a.d \div g), (a.d \div g) * b.d)
RAdd(a, b) == radd[<<a, b>>]
RNeg(a) == [n |-> -a.n, d |-> a.d]
RSub(a, b) == RAdd(a, RNeg(b))
rmul[p \in Rat \X Rat] ==
    LET a == p[1]
        b == p[2]
        g1 == GCD(Abs(a.n), b.d)
        g2 == GCD(Abs(b.n), a.d)
    IN  R((a.n \div g1) * (b.n \div g2), (a.d \div g2) * (b.d \div g1))
RMul(a, b) == rmul[<<a, b>>]
\* a / b for b # 0
RDiv(a, b) == RMul(a, R(b.d, b.n))
\* a / b for a > 0 as the hardware computes it: +infinity when b = 0
RDivPos(a, b) == IF b.n = 0 THEN Inf ELSE RDiv(a, b)
rlt[p \in Rat \X Rat] ==
    LET a == p[1]
        b == p[2]
        g == GCD(a.d, b.d)
    IN  IF IsInf(a) THEN FALSE
        ELSE IF IsInf(b) THEN TRUE
        ELSE a.n * (b.d \div g) < b.n * (a.d \div g)
RLt(a, b) == rlt[<<a, b>>]
RLeq(a, b) == a = b \/ RLt(a, b)
RGt(a, b) == RLt(b, a)

\* std::round: the integer nearest to t, halves away from zero
stdRound[t \in Rat] ==
    IF t.n >= 0 THEN (2 * t.n + t.d) \div (2 * t.d)
    ELSE -((2 * (-t.n) + t.d) \div (2 * t.d))

\* faulty variant: the scaled value is rounded but never divided by the scale again
roundNoDivide(value, precision) ==
    Z(stdRound[RMul(value, Z(Pow10(precision)))])

\* lines 66-69: std::round(value * scale) / scale with scale = 10^precision
roundToPrecision(value, precision) ==
    R(stdRound[RMul(value, Z(Pow10(precision)))], Pow10(precision))

(***************************************************************************)
(* Display: operator<< with std::fixed and std::setprecision(precision)    *)
(* prints the decimal nearest to the value with `precision` digits after   *)
(* the point (a tie goes to the even digit).  The printed string is        *)
(* modelled by the integer its digits spell: fixed(1.25, 1) = 12 for       *)
(* " 1.2 ".  stod reads such a string back.                                *)
(***************************************************************************)
nearestEven[t \in Rat] ==
    LET q == t.n \div t.d
        r == t.n - q * t.d
    IN  IF 2 * r < t.d THEN q
        ELSE IF 2 * r > t.d THEN q + 1
        ELSE IF q % 2 = 0 THEN q ELSE q + 1

fixed(value, precision) == nearestEven[RMul(value, Z(Pow10(precision)))]

stod(digits, precision) == R(digits, Pow10(precision))

stepValues(x_, y_, yp_, dy_, precision) ==
    [x |-> fixed(x_, precision), y |-> fixed(y_, precision),
     yp |-> fixed(yp_, precision), dy |-> fixed(dy_, precision)]

(***************************************************************************)
(* The expression evaluator (tinyexpr's te_parser, an external library):   *)
(* evaluate() of a formula at (x, y).  ok = FALSE is te_parser::success()  *)
(* returning false: the formula does not parse ("0.3x": no implicit        *)
(* multiplication) or its evaluation fails at that point (a division by    *)
(* zero).                                                                  *)
(***************************************************************************)
Failed == [ok |-> FALSE, v |-> Z(0)]
Value(v) == [ok |-> TRUE, v |-> v]

evaluate(fn, xv, yv) ==
    CASE fn = "0.3*(300 - y)" -> Value(RMul(R(3, 10), RSub(Z(300), yv)))
      [] fn = "x - y" -> Value(RSub(xv, yv))
      [] fn = "-y/(500+x)" ->
            IF RAdd(Z(500), xv).n = 0 THEN Failed
            ELSE Value(RDiv(RNeg(yv), RAdd(Z(500), xv)))
      [] fn = "1/(x-1)" ->
            IF RSub(xv, Z(1)).n = 0 THEN Failed
            ELSE Value(RDiv(Z(1), RSub(xv, Z(1))))
      [] OTHER -> Failed

(***************************************************************************)
(* The calls main makes (src/euler.cpp 300-336).  One record shape serves  *)
(* both: xe is eulersMethod's `end`, step is printDField's curveStep.      *)
(***************************************************************************)
TableCall(fn, st, x0, y0, end, precision) ==
    [mode |-> "table", fn |-> fn, step |-> st, x0 |-> x0, y0 |-> y0, xe |-> end,
     ye |-> Z(0), xstep |-> Z(0), ystep |-> Z(0), precision |-> precision,
     plotCurve |-> FALSE, curveX0 |-> Z(0), curveY0 |-> Z(0), xbase |-> 0]

\* -df: no curve; curveStep, curveX0, curveY0 keep their defaults
FieldCall(fn, dom, grid, precision) ==
    [mode |-> "dfield", fn |-> fn, step |-> grid[1], x0 |-> dom[1], y0 |-> dom[2],
     xe |-> dom[3], ye |-> dom[4], xstep |-> grid[1], ystep |-> grid[2],
     precision |-> precision, plotCurve |-> FALSE,
     curveX0 |-> dom[1], curveY0 |-> dom[2], xbase |-> 0]

\* -dfc with 13 arguments: curve step and curve initial point given
CurveCall(fn, dom, grid, precision, h, init) ==
    [FieldCall(fn, dom, grid, precision) EXCEPT
        !.plotCurve = TRUE, !.step = h, !.curveX0 = init[1], !.curveY0 = init[2]]

\* -dfc with 11 arguments: the curve starts at (x_min, y_min)
CurveCallDefault(fn, dom, grid, precision, h) ==
    [FieldCall(fn, dom, grid, precision) EXCEPT !.plotCurve = TRUE, !.step = h]

Precisions == 0 .. MaxPrecision

TableFormulas == {"0.3*(300 - y)", "x - y", "0.3x"}
TableSteps == {Z(1), R(1, 2), R(1, 4), R(1, 25), Z(0), R(-1, 2)}
TableX0 == {Z(0), R(1, 4)}
TableY0 == {R(5, 4), Z(3)}
TableEnds == {Z(0), R(1, 2)}

\* ./euler "0.3*(300 - y)" 0.1 0 350 10 6, stopped at x = 1: the first eleven
\* rows of the README's table
ReadmeTable == TableCall("0.3*(300 - y)", R(1, 10), Z(0), Z(350), Z(1), ReadmePrecision)

TableCalls ==
    { TableCall(fn, st, x0, y0, end, p) :
        fn \in TableFormulas, st \in TableSteps, x0 \in TableX0,
        y0 \in TableY0, end \in TableEnds, p \in Precisions }
    \cup { [ReadmeTable EXCEPT !.precision = p] : p \in Precisions \cup {ReadmePrecision} }

\* before main has parsed the command line
NoCall == [ReadmeTable EXCEPT !.mode = "none"]
NoRnd == [v |-> Z(0), p |-> 0, r1 |-> Z(0), r2 |-> Z(0), pc |-> "off"]
NoHist == [run |-> 0, A |-> ReadmeTable, B |-> ReadmeTable, first |-> <<>>]

(***************************************************************************)
(* eulersMethod (src/euler.cpp 71-111).                                    *)
(***************************************************************************)
\* faulty variant: the vector of rows is kept from one call to the next
EulerEnterStatic ==
    /\ pc = "euler"
    /\ x' = roundToPrecision(args.x0, args.precision)
    /\ y' = roundToPrecision(args.y0, args.precision)
    /\ step' = roundToPrecision(args.step, args.precision)
    /\ IF evaluate(args.fn, x', y').ok
       THEN pc' = "loop" /\ err' = err
       ELSE pc' = "threw" /\ err' = "error parsing expr"
    /\ UNCHANGED <<args, values, buffer, first, out, rnd, hist>>

\* lines 74-84: round the inputs, bind x and y, parse and evaluate once
EulerEnter ==
    /\ pc = "euler"
    /\ x' = roundToPrecision(args.x0, args.precision)
    /\ y' = roundToPrecision(args.y0, args.precision)
    /\ step' = roundToPrecision(args.step, args.precision)
    /\ values' = <<>>
    /\ IF evaluate(args.fn, x', y').ok
       THEN pc' = "loop" /\ err' = err
       ELSE pc' = "threw" /\ err' = "error parsing expr"
    /\ UNCHANGED <<args, buffer, first, out, rnd, hist>>

\* line 85: the loop test !(x > end) holds
EulerTest ==
    /\ pc = "loop"
    /\ ~RGt(x, args.xe)
    /\ pc' = "body"
    /\ UNCHANGED <<args, x, y, step, values, buffer, first, out, err, rnd, hist>>

\* faulty variant: the state advances unrounded and only the display rounds, as in
\* the first version of the program (src/unnamed/part_001 72-77)
EulerStepUnrounded ==
    /\ pc = "body"
    /\ Len(values) < MaxRecords \/ step.n = 0
    /\ LET yp == evaluate(args.fn, x, y).v
           dy == RMul(yp, step)
       IN  /\ values' = IF Len(values) < MaxRecords
                        THEN Append(values, stepValues(x, y, yp, dy, args.precision))
                        ELSE values
           /\ x' = RAdd(x, step)
           /\ y' = RAdd(y, dy)
    /\ pc' = "loop"
    /\ UNCHANGED <<args, step, buffer, first, out, err, rnd, hist>>

\* lines 86-90: one iteration.  The model keeps the first MaxRecords rows of
\* the vector; a run that still moves x is followed no further than that.
EulerStep ==
    /\ pc = "body"
    /\ Len(values) < MaxRecords \/ step.n = 0
    /\ LET yp == roundToPrecision(evaluate(args.fn, x, y).v, args.precision)
           dy == roundToPrecision(RMul(yp, step), args.precision)
       IN  /\ values' = IF Len(values) < MaxRecords
                        THEN Append(values, stepValues(x, y, yp, dy, args.precision))
                        ELSE values
           /\ x' = roundToPrecision(RAdd(x, step), args.precision)
           /\ y' = roundToPrecision(RAdd(y, dy), args.precision)
    /\ pc' = "loop"
    /\ UNCHANGED <<args, step, buffer, first, out, err, rnd, hist>>

\* lines 85, 92-110: x > end leaves the loop and the rows are printed (the
\* formatters write a header line and one line per row)
EulerPrint ==
    /\ pc = "loop"
    /\ RGt(x, args.xe)
    /\ out' = <<[kind |-> "header"]>> \o values
    /\ pc' = "done"
    /\ UNCHANGED <<args, x, y, step, values, buffer, first, err, rnd, hist>>

(***************************************************************************)
(* printDField (src/euler.cpp 189-272).  The ostringstream buffer is a     *)
(* sequence with one record per item written; a field segment is kept as   *)
(* its sample point, its centre in drawing space and its scaled slope (its *)
(* two end points are a function of these).                                *)
(***************************************************************************)
xrange(a) == RSub(a.xe, a.x0)
yrange(a) == RSub(a.ye, a.y0)
yScale(a) == RDiv(xrange(a), yrange(a))
yTop(a) == RAdd(a.y0, xrange(a))
ySampleStep(a) == RDivPos(a.ystep, yScale(a))

\* faulty variant: the offset y0 is not taken off before scaling
mapYNoOffset(a, yv) == RAdd(a.y0, RMul(yv, yScale(a)))

mapY(a, yv) == RAdd(a.y0, RMul(RSub(yv, a.y0), yScale(a)))

\* x <= xe + 1e-12 and the like: every number of the model is a fraction with
\* a denominator far below 10^12, so the tolerance never decides
LeqTol(a, b) == RLeq(a, b)

Item(kind) == [kind |-> kind]
Axis(a, x1, y1) ==
    [kind |-> "axis", x0 |-> fixed(a.x0, a.precision), y0 |-> fixed(a.y0, a.precision),
     x1 |-> fixed(x1, a.precision), y1 |-> fixed(y1, a.precision)]
Segment(a, xv, yv, m) ==
    [kind |-> "seg", x |-> xv, y |-> yv, yCenter |-> mapY(a, yv),
     mScaled |-> RMul(m, yScale(a))]
Point(a, xv, yv) ==
    [kind |-> "pt", x |-> fixed(xv, a.precision), y |-> fixed(mapY(a, yv), a.precision)]

CurvePoints(buf) == Cardinality({i \in DOMAIN buf : buf[i].kind = "pt"})

\* lines 193-204: the argument checks, in the order of the code
Rejection(a) ==
    IF ~RGt(a.xstep, Z(0)) \/ ~RGt(a.ystep, Z(0))
    THEN "direction field steps must be positive"
    ELSE IF a.plotCurve /\ ~RGt(a.step, Z(0))
    THEN "curve step must be positive"
    ELSE IF RLt(a.xe, a.x0) \/ RLt(a.ye, a.y0)
    THEN "direction field range must be increasing"
    ELSE IF a.ye = a.y0
    THEN "direction field y range must be non-zero"
    ELSE "none"

\* lines 193-226: the checks, then the picture's opening and the two axes
DFieldEnter ==
    /\ pc = "dfield"
    /\ IF Rejection(args) # "none"
       THEN /\ pc' = "threw"
            /\ err' = Rejection(args)
            /\ UNCHANGED <<x, y, buffer>>
       ELSE /\ buffer' = <<Item("begin"), Axis(args, args.xe, args.y0),
                           Axis(args, args.x0, yTop(args))>>
            /\ x' = args.x0
            /\ y' = args.y0
            /\ pc' = "field"
            /\ err' = err
    /\ UNCHANGED <<args, step, values, first, out, rnd, hist>>

\* faulty variant: every line goes to std::cout as it is produced, so what was drawn
\* before a failing sample is already out
FieldSampleUnbuffered ==
    /\ pc = "field"
    /\ LeqTol(x, args.xe)
    /\ LeqTol(y, args.ye)
    /\ LET m == evaluate(args.fn, x, y)
       IN  IF ~m.ok
           THEN /\ pc' = "threw"
                /\ err' = "error parsing expr"
                /\ out' = buffer
                /\ UNCHANGED <<y, buffer>>
           ELSE /\ buffer' = Append(buffer, Segment(args, x, y, m.v))
                /\ y' = RAdd(y, ySampleStep(args))
                /\ UNCHANGED <<pc, err, out>>
    /\ UNCHANGED <<args, x, step, values, first, rnd, hist>>

\* lines 227-240: one sample of the inner loop; slope() throws when the
\* evaluator fails, and the buffer is dropped with the stack frame
FieldSample ==
    /\ pc = "field"
    /\ LeqTol(x, args.xe)
    /\ LeqTol(y, args.ye)
    /\ LET m == evaluate(args.fn, x, y)
       IN  IF ~m.ok
           THEN /\ pc' = "threw"
                /\ err' = "error parsing expr"
                /\ UNCHANGED <<y, buffer>>
           ELSE /\ buffer' = Append(buffer, Segment(args, x, y, m.v))
                /\ y' = RAdd(y, ySampleStep(args))
                /\ UNCHANGED <<pc, err>>
    /\ UNCHANGED <<args, x, step, values, first, out, rnd, hist>>

(***************************************************************************)
(* x += xstep on doubles.  A double in [2^e, 2^(e+1)) is a multiple of     *)
(* 2^(e-52), and the sum is the double nearest to x + xstep (a tie goes to *)
(* the even one).  For the small numbers of most calls the error of one    *)
(* addition is below 10^-15 and the loop's 1e-12 absorbs it, so the sum is *)
(* kept exact (xbase = 0).  A call far from the origin gives x_min as      *)
(* xbase + x0 and x_max as xbase + xe with xbase a power of two: x is kept *)
(* as its offset from xbase, and the offsets of doubles are the multiples  *)
(* of 1 / DoublesPerUnit(xbase), which is far above 1e-12.                 *)
(***************************************************************************)
MantissaBits == 52
RECURSIVE Log2(_)
Log2(n) == IF n <= 1 THEN 0 ELSE 1 + Log2(n \div 2)
RECURSIVE Pow2(_)
Pow2(k) == IF k = 0 THEN 1 ELSE 2 * Pow2(k - 1)
DoublesPerUnit(base) == Pow2(MantissaBits - Log2(base))
plusEq(a, xv, h) ==
    IF a.xbase = 0 THEN RAdd(xv, h)
    ELSE R(nearestEven[RMul(RAdd(xv, h), Z(DoublesPerUnit(a.xbase)))],
           DoublesPerUnit(a.xbase))

\* lines 226-227: the inner loop is over; x += xstep and y starts again at y0
FieldNextColumn ==
    /\ pc = "field"
    /\ LeqTol(x, args.xe)
    /\ ~LeqTol(y, args.ye)
    /\ x' = plusEq(args, x, args.xstep)
    /\ y' = args.y0
    /\ UNCHANGED <<args, pc, step, values, buffer, first, out, err, rnd, hist>>

\* lines 226, 243-248: the outer loop is over; with plotCurve the curve's state
\* is rounded and the draw command is opened
FieldExit ==
    /\ pc = "field"
    /\ ~LeqTol(x, args.xe)
    /\ IF args.plotCurve
       THEN /\ x' = roundToPrecision(args.curveX0, args.precision)
            /\ y' = roundToPrecision(args.curveY0, args.precision)
            /\ step' = roundToPrecision(args.step, args.precision)
            /\ buffer' = Append(buffer, Item("draw[red, thick]"))
            /\ first' = TRUE
            /\ pc' = "curve"
       ELSE /\ pc' = "flush"
            /\ UNCHANGED <<x, y, step, buffer, first>>
    /\ UNCHANGED <<args, values, out, err, rnd, hist>>

\* faulty variant: the loop has no break, it only tests x
InRegionXOnly(a, xv, yv) == LeqTol(xv, a.xe)

InRegion(a, xv, yv) ==
    /\ LeqTol(xv, a.xe)
    /\ ~(RLt(yv, a.y0) \/ RGt(yv, a.ye))

\* lines 249-252: the loop test holds and y is inside the range
CurveTest ==
    /\ pc = "curve"
    /\ InRegion(args, x, y)
    /\ pc' = "curve_body"
    /\ UNCHANGED <<args, x, y, step, values, buffer, first, out, err, rnd, hist>>

\* lines 253-262 and the increment of line 249: one point of the curve.  The
\* model keeps the first MaxRecords points, as it does for the table's rows.
CurveStep ==
    /\ pc = "curve_body"
    /\ CurvePoints(buffer) < MaxRecords \/ step.n = 0
    /\ LET open == IF first THEN <<Item("plot coordinates {")>> ELSE <<>>
           m == evaluate(args.fn, x, y)
           mr == roundToPrecision(m.v, args.precision)
           dy == roundToPrecision(RMul(mr, step), args.precision)
       IN  IF ~m.ok
           THEN /\ pc' = "threw"
                /\ err' = "error parsing expr"
                /\ UNCHANGED <<x, y, buffer, first>>
           ELSE /\ buffer' = IF CurvePoints(buffer) < MaxRecords
                             THEN buffer \o open \o <<Point(args, x, y)>>
                             ELSE buffer
                /\ first' = FALSE
                /\ y' = roundToPrecision(RAdd(y, dy), args.precision)
                /\ x' = roundToPrecision(RAdd(x, step), args.precision)
                /\ pc' = "curve"
                /\ err' = err
    /\ UNCHANGED <<args, step, values, out, rnd, hist>>

\* lines 249-251, 263-265: the loop ends (x beyond xe, or the break); the plot
\* is closed if it was opened
CurveExit ==
    /\ pc = "curve"
    /\ ~InRegion(args, x, y)
    /\ buffer' = IF first THEN buffer ELSE Append(buffer, Item("};"))
    /\ pc' = "flush"
    /\ UNCHANGED <<args, x, y, step, values, first, out, err, rnd, hist>>

\* lines 268-271: the picture is closed and the buffer goes to std::cout
Flush ==
    /\ pc = "flush"
    /\ buffer' = Append(buffer, Item("end"))
    /\ out' = buffer'
    /\ pc' = "done"
    /\ UNCHANGED <<args, x, y, step, values, first, err, rnd, hist>>

FieldFormulas == {"x - y", "1/(x-1)", "0.3x"}
Domains ==
    { <<Z(0), Z(0), Z(2), Z(1)>>, <<Z(0), Z(0), Z(2), Z(4)>>,
      <<Z(0), Z(0), Z(0), Z(1)>>, <<Z(0), Z(1), Z(2), Z(1)>>,
      <<Z(2), Z(0), Z(0), Z(1)>>, <<Z(0), Z(1), Z(2), Z(0)>> }
Grids == { <<Z(1), Z(1)>>, <<Z(2), R(1, 2)>>, <<Z(0), Z(1)>>, <<Z(1), Z(0)>> }
CurveSteps == {R(1, 2), R(1, 4), Z(0)}
CurveInits == { <<Z(0), R(1, 2)>>, <<Z(0), Z(5)>>, <<Z(3), R(1, 2)>> }

\* ./euler "-y/(500+x)" 0 60 210 95 5 5 5 -df, on a grid of 35 instead of 5
ReadmeDomain == <<Z(0), Z(60), Z(210), Z(95)>>
ReadmeGrid == <<Z(35), Z(35)>>
ReadmeCurveSteps == {Z(35)}
ReadmeCurveInits == { <<Z(0), Z(90)>>, <<Z(0), Z(100)>> }

\* a curve step above 1 on y' = x - y: the Euler step overshoots, so the curve
\* leaves the region below y_min and a further step would bring it back
WideDomain == <<Z(0), Z(0), Z(4), Z(4)>>
WideGrid == <<Z(2), Z(2)>>
WideCurveSteps == {R(3, 2)}
WideCurveInits == { <<Z(0), R(1, 2)>> }

FieldCallsOf(fns, doms, grids, steps, inits) ==
    { FieldCall(fn, dom, g, p) :
        fn \in fns, dom \in doms, g \in grids, p \in Precisions }
    \cup { CurveCallDefault(fn, dom, g, p, h) :
        fn \in fns, dom \in doms, g \in grids, p \in Precisions, h \in steps }
    \cup { CurveCall(fn, dom, g, p, h, i) :
        fn \in fns, dom \in doms, g \in grids, p \in Precisions, h \in steps,
        i \in inits }

\* ./euler "0.3*(300 - y)" 1073741824 0 1073741825 1 0.2 1 p -df: a unit of x
\* in steps of 0.2, 2^30 away from the origin (the formula does not read x)
XBase == 1073741824
FarDomain == <<Z(0), Z(0), Z(1), Z(1)>>
FarGrid == <<R(1, 5), Z(1)>>
FarCalls ==
    { [FieldCall("0.3*(300 - y)", FarDomain, FarGrid, p) EXCEPT !.xbase = XBase] :
        p \in Precisions }

FieldCalls ==
    FarCalls \cup
    FieldCallsOf(FieldFormulas, Domains, Grids, CurveSteps, CurveInits)
    \cup FieldCallsOf({"-y/(500+x)"}, {ReadmeDomain}, {ReadmeGrid},
                      ReadmeCurveSteps, ReadmeCurveInits)
    \cup FieldCallsOf({"x - y"}, {WideDomain}, {WideGrid}, WideCurveSteps,
                      WideCurveInits)

\* main (lines 274-336): the command line is parsed and the one call is made
Main ==
    /\ pc = "main"
    /\ args' \in TableCalls \cup FieldCalls
    /\ pc' = IF args'.mode = "table" THEN "euler" ELSE "dfield"
    /\ UNCHANGED <<x, y, step, values, buffer, first, out, err, rnd, hist>>

Init ==
    /\ args = NoCall
    /\ pc = "main"
    /\ x = Z(0) /\ y = Z(0) /\ step = Z(0)
    /\ values = <<>> /\ buffer = <<>> /\ first = TRUE
    /\ out = <<>> /\ err = "none"
    /\ rnd = NoRnd /\ hist = NoHist

Next ==
    \/ Main
    \/ EulerEnter
    \/ EulerTest
    \/ EulerStep
    \/ EulerPrint
    \/ DFieldEnter
    \/ FieldSample
    \/ FieldNextColumn
    \/ FieldExit
    \/ CurveTest
    \/ CurveStep
    \/ CurveExit
    \/ Flush

Spec == Init /\ [][Next]_vars

FairSpec == Spec /\ WF_vars(Next)

(***************************************************************************)
(* The rounder on its own: roundToPrecision applied to a value, and again  *)
(* to its result (src/euler.cpp 66-69).                                    *)
(***************************************************************************)
RoundDenominators == {1, 4, 200}
RoundValues ==
    { R(k, den) : k \in (-MaxRoundNum) .. MaxRoundNum, den \in RoundDenominators }

RoundOnce ==
    /\ rnd.pc = "start"
    /\ rnd' = [rnd EXCEPT !.r1 = roundToPrecision(rnd.v, rnd.p), !.pc = "once"]
    /\ UNCHANGED <<args, pc, x, y, step, values, buffer, first, out, err, hist>>

RoundTwice ==
    /\ rnd.pc = "once"
    /\ rnd' = [rnd EXCEPT !.r2 = roundToPrecision(rnd.r1, rnd.p), !.pc = "twice"]
    /\ UNCHANGED <<args, pc, x, y, step, values, buffer, first, out, err, hist>>

InitRound ==
    /\ rnd \in { [v |-> v, p |-> p, r1 |-> Z(0), r2 |-> Z(0), pc |-> "start"] :
                    v \in RoundValues, p \in Precisions }
    /\ args = ReadmeTable
    /\ pc = "round"
    /\ x = Z(0) /\ y = Z(0) /\ step = Z(0)
    /\ values = <<>> /\ buffer = <<>> /\ first = TRUE
    /\ out = <<>> /\ err = "none"
    /\ hist = NoHist

NextRound ==
    \/ RoundOnce
    \/ RoundTwice

SpecRound == InitRound /\ [][NextRound]_vars

(***************************************************************************)
(* The program invoked three times: with arguments A, then B, then A       *)
(* again.  A new invocation (main, src/euler.cpp 274-336) starts with an   *)
(* empty std::cout and no exception; whatever the locals of eulersMethod   *)
(* held is left where it was, for eulersMethod to initialise.              *)
(***************************************************************************)
RunCalls ==
    { TableCall(fn, st, x0, Z(3), R(1, 2), p) :
        fn \in {"x - y", "0.3x"}, st \in {R(1, 2), R(1, 4)}, x0 \in TableX0,
        p \in Precisions }

Rerun ==
    /\ hist.run \in {1, 2}
    /\ pc \in {"done", "threw"}
    /\ hist' = [hist EXCEPT !.run = @ + 1,
                            !.first = IF hist.run = 1 THEN <<values, out, err>> ELSE @]
    /\ args' = IF hist.run = 1 THEN hist.B ELSE hist.A
    /\ pc' = "euler"
    /\ out' = <<>>
    /\ err' = "none"
    /\ UNCHANGED <<x, y, step, values, buffer, first, rnd>>

InitRuns ==
    /\ hist \in { [run |-> 1, A |-> a, B |-> b, first |-> <<>>] :
                     a \in RunCalls, b \in RunCalls }
    /\ args = hist.A
    /\ pc = "euler"
    /\ x = Z(0) /\ y = Z(0) /\ step = Z(0)
    /\ values = <<>> /\ buffer = <<>> /\ first = TRUE
    /\ out = <<>> /\ err = "none"
    /\ rnd = NoRnd

NextRuns ==
    \/ EulerEnter
    \/ EulerTest
    \/ EulerStep
    \/ EulerPrint
    \/ Rerun

SpecRuns == InitRuns /\ [][NextRuns]_vars

(***************************************************************************)
(* Properties.                                                             *)
(***************************************************************************)
Table == args.mode = "table"
DField == args.mode = "dfield"
Rounded(v) == roundToPrecision(v, args.precision)
Shown(digits) == stod(digits, args.precision)
Floor(a) == a.n \div a.d
ValidDomain(a) == RGt(a.xe, a.x0) /\ RGt(a.ye, a.y0)

\* the sign of step contradicts the sign of x_end - x0
SignInconsistent(a) ==
    \/ RGt(a.step, Z(0)) /\ RLt(a.xe, a.x0)
    \/ RLt(a.step, Z(0)) /\ RGt(a.xe, a.x0)

\* C1: a call of eulersMethod whose step is 0, or whose step has the wrong
\* sign for x_end - x0, is rejected before the loop: it is either still at its
\* entry or has thrown, and it has neither a row nor output.
C1_RejectedBeforeLoop ==
    (Table /\ (args.step.n = 0 \/ SignInconsistent(args)))
        => /\ pc \in {"euler", "threw"}
           /\ values = <<>>
           /\ out = <<>>

\* C2: with step > 0 and x_end >= x0 the table loop is left after finitely
\* many iterations, whatever the precision: the call ends (its table printed,
\* or the formula rejected).
C2_LoopTerminates ==
    (Table /\ pc = "euler" /\ RGt(args.step, Z(0)) /\ RLeq(args.x0, args.xe))
        ~> (pc \in {"done", "threw"})

\* C3: printDField rejects a domain with max <= min on either axis before it
\* computes a scale or samples a point: the call is either still at its entry
\* or has thrown one of the argument errors, with nothing buffered or printed.
DegenerateDomain(a) == RLeq(a.xe, a.x0) \/ RLeq(a.ye, a.y0)
C3_DegenerateDomainRejected ==
    (DField /\ DegenerateDomain(args))
        => /\ pc \in {"dfield", "threw"}
           /\ pc = "threw" => err # "error parsing expr"
           /\ buffer = <<>>
           /\ out = <<>>

\* C4: for a valid call (step > 0 with x_end >= x0, or step < 0 with
\* x_end < x0, and a formula that evaluates) the finished table has a first
\* row at x0, x strictly monotonic in the direction of step, and
\* floor((x_end - x0)/step) + 1 rows, give or take one.
C4Valid(a) ==
    /\ evaluate(a.fn, roundToPrecision(a.x0, a.precision),
                roundToPrecision(a.y0, a.precision)).ok
    /\ \/ RGt(a.step, Z(0)) /\ RLeq(a.x0, a.xe)
       \/ RLt(a.step, Z(0)) /\ RLt(a.xe, a.x0)
C4_RecordSequence ==
    (Table /\ C4Valid(args) /\ pc = "done")
        => /\ Len(values) >= 1
           /\ Shown(values[1].x) = Rounded(args.x0)
           /\ \A k \in 1 .. Len(values) - 1 :
                IF RGt(args.step, Z(0))
                THEN values[k].x < values[k + 1].x
                ELSE values[k].x > values[k + 1].x
           /\ Abs(Len(values) - (Floor(RDiv(RSub(args.xe, args.x0), args.step)) + 1)) <= 1

\* C5: every row of the table is yp = round(f(x,y)), dy = round(yp*step);
\* consecutive rows are x' = round(x + step), y' = round(y + dy), starting
\* from the rounded x0, y0 and step; the state the loop holds is the state a
\* row would show; and the README's call gives the rows the README's table
\* starts with.
C5Row(k) ==
    LET xk == Shown(values[k].x)
        yk == Shown(values[k].y)
        yp == Rounded(evaluate(args.fn, xk, yk).v)
        dy == Rounded(RMul(yp, Rounded(args.step)))
    IN  /\ Shown(values[k].yp) = yp
        /\ Shown(values[k].dy) = dy
        /\ k < Len(values) =>
              /\ Shown(values[k + 1].x) = Rounded(RAdd(xk, Rounded(args.step)))
              /\ Shown(values[k + 1].y) = Rounded(RAdd(yk, dy))
        /\ (k = Len(values) /\ k < MaxRecords /\ pc \in {"loop", "done"}) =>
              /\ x = Rounded(RAdd(xk, Rounded(args.step)))
              /\ y = Rounded(RAdd(yk, dy))
C5_RowsFollowRecurrence ==
    (Table /\ pc \in {"loop", "body", "done"})
        => /\ \A k \in 1 .. Len(values) : C5Row(k)
           /\ Len(values) >= 1 =>
                /\ Shown(values[1].x) = Rounded(args.x0)
                /\ Shown(values[1].y) = Rounded(args.y0)
           /\ Shown(fixed(x, args.precision)) = x
           /\ Shown(fixed(y, args.precision)) = y
           /\ (args = ReadmeTable /\ Len(values) >= 2) =>
                /\ values[1] = [x |-> 0, y |-> 350000000, yp |-> -15000000,
                                dy |-> -1500000]
                /\ values[2].x = 100000
                /\ values[2].y = 348500000
C5_Witness ==
    /\ args = ReadmeTable
    /\ pc = "done"
    /\ Len(values) = 11

\* C6: a printed picture whose curve kept fewer than two points holds no item
\* of the curve at all: no draw command, no plot path, no point.
CurveKinds == {"draw[red, thick]", "plot coordinates {", "pt", "};"}
C6_EmptyOverlay ==
    (DField /\ ValidDomain(args) /\ args.plotCurve /\ pc = "done" /\ CurvePoints(out) < 2)
        => \A i \in DOMAIN out : out[i].kind \notin CurveKinds

\* C7: when the evaluator fails at a point of the grid or of the curve,
\* printDField throws the expression error and nothing of the picture is on
\* std::cout; output only ever appears whole, from a call all of whose grid
\* points evaluate.
MaxGrid == 7
GridX(a, i) == RAdd(a.x0, RMul(Z(i), a.xstep))
GridY(a, j) == IF j = 0 THEN a.y0 ELSE RAdd(a.y0, RMul(Z(j), ySampleStep(a)))
GridFails(a) ==
    \E i \in 0 .. MaxGrid, j \in 0 .. MaxGrid :
        /\ RLeq(GridX(a, i), a.xe)
        /\ RLeq(GridY(a, j), a.ye)
        /\ ~evaluate(a.fn, GridX(a, i), GridY(a, j)).ok
C7_NoPartialOutput ==
    DField
        => /\ err = "error parsing expr" => (pc = "threw" /\ out = <<>>)
           /\ out # <<>> => pc = "done"
           /\ (Rejection(args) = "none" /\ GridFails(args)) =>
                 (pc \notin {"curve", "curve_body", "flush", "done"} /\ out = <<>>)
C7_Witness ==
    /\ DField
    /\ pc = "threw"
    /\ err = "error parsing expr"
    /\ \E i \in DOMAIN buffer : buffer[i].kind = "seg"
    /\ out = <<>>

\* C8: for a valid domain the projector maps y_min to y_min and y_max to
\* y_min + x_range, every segment in the buffer is centred at the projection
\* of its sample, and the drawn y-axis runs from y_min to y_min + x_range; the
\* README's domain 0,60,210,95 has scale 6 and maps 60 to 60 and 95 to 270.
C8_Projector ==
    (DField /\ ValidDomain(args))
        => /\ mapY(args, args.y0) = args.y0
           /\ mapY(args, args.ye) = RAdd(args.y0, xrange(args))
           /\ \A i \in DOMAIN buffer :
                /\ buffer[i].kind = "seg" =>
                     RMul(RSub(buffer[i].yCenter, args.y0), yrange(args))
                        = RMul(RSub(buffer[i].y, args.y0), xrange(args))
                /\ (buffer[i].kind = "seg" /\ buffer[i].y = args.ye) =>
                     buffer[i].yCenter = RAdd(args.y0, xrange(args))
           /\ Len(buffer) >= 3 =>
                /\ buffer[3].y0 = fixed(args.y0, args.precision)
                /\ buffer[3].y1 = fixed(RAdd(args.y0, xrange(args)), args.precision)
           /\ <<args.x0, args.y0, args.xe, args.ye>> = ReadmeDomain =>
                /\ yScale(args) = Z(6)
                /\ mapY(args, Z(60)) = Z(60)
                /\ mapY(args, Z(95)) = Z(270)
C8_Witness ==
    /\ DField
    /\ <<args.x0, args.y0, args.xe, args.ye>> = ReadmeDomain
    /\ \E i \in DOMAIN buffer :
          /\ buffer[i].kind = "seg"
          /\ buffer[i].y = Z(95)
          /\ buffer[i].yCenter = Z(270)

\* C9: rounding a rounded value changes nothing, and the rounded value is the
\* multiple of 10^-p nearest to the value, a tie going away from zero.
HalfAway(v, r, p) ==
    LET scale == Pow10(p)
        k == RMul(r, Z(scale))
        twice == RMul(RSub(v, r), Z(2 * scale))
    IN  /\ k.d = 1
        /\ RLeq(Z(-1), twice) /\ RLeq(twice, Z(1))
        /\ twice = Z(1) => RLt(r, Z(0))
        /\ twice = Z(-1) => RGt(r, Z(0))
C9_RoundIdempotent ==
    /\ rnd.pc \in {"once", "twice"} => HalfAway(rnd.v, rnd.r1, rnd.p)
    /\ rnd.pc = "twice" => rnd.r2 = rnd.r1
C9_Witness ==
    /\ rnd.pc = "twice"
    /\ rnd.v = R(-1, 4)
    /\ rnd.p = 1
    /\ rnd.r1 = R(-3, 10)
    /\ rnd.r2 = R(-3, 10)

\* C10: the third invocation, with the arguments of the first and after an
\* invocation with other arguments, ends with the same rows, the same output
\* and the same outcome as the first.
C10_Deterministic ==
    (hist.run = 3 /\ pc \in {"done", "threw"})
        => <<values, out, err>> = hist.first
C10_Witness ==
    /\ hist.run = 3
    /\ pc = "done"
    /\ hist.A # hist.B
    /\ Len(values) >= 2
    /\ Len(hist.first[1]) >= 2

\* C11: a direction-field call on a valid domain with a curve whose step
\* printDField accepted (step > 0) leaves the curve loop after finitely many
\* steps, whatever the precision: it goes on to close the picture, or it
\* throws.
C11_CurveTerminates ==
    (DField /\ ValidDomain(args) /\ args.plotCurve /\ RGt(args.step, Z(0))
        /\ pc = "curve")
        ~> (pc \in {"flush", "done", "threw"})

\* C12: every point of the curve is written from a state with x <= x_max and
\* y_min <= y <= y_max, and it is the projection of that state; from the first
\* state of the loop outside this region the loop is left and no further
\* point is written, neither by the loop nor after it.
Inside(a, xv, yv) == RLeq(xv, a.xe) /\ RLeq(a.y0, yv) /\ RLeq(yv, a.ye)
Emits == CurvePoints(buffer') > CurvePoints(buffer) \/ (pc = "curve_body" /\ pc' = "curve")
EulerAfter(a, xv, yv, h) ==
    LET m == evaluate(a.fn, xv, yv)
        mr == roundToPrecision(m.v, a.precision)
        dy == roundToPrecision(RMul(mr, h), a.precision)
    IN  [ok |-> m.ok,
         x |-> roundToPrecision(RAdd(xv, h), a.precision),
         y |-> IF m.ok THEN roundToPrecision(RAdd(yv, dy), a.precision) ELSE yv]
C12_CurveStaysInside ==
    [][(DField /\ args.plotCurve) =>
        /\ Emits => Inside(args, x, y)
        /\ CurvePoints(buffer') > CurvePoints(buffer)
             => buffer'[Len(buffer')] = Point(args, x, y)
        /\ (pc = "curve" /\ ~Inside(args, x, y))
             => (pc' = "flush" /\ CurvePoints(buffer') = CurvePoints(buffer))
        /\ pc \in {"flush", "done"}
             => CurvePoints(buffer') = CurvePoints(buffer)]_vars
C12_Witness ==
    /\ DField /\ args.plotCurve /\ ValidDomain(args)
    /\ pc = "done"
    /\ CurvePoints(out) >= 1
    /\ RLeq(x, args.xe) /\ ~Inside(args, x, y)
    /\ EulerAfter(args, x, y, step).ok
    /\ Inside(args, EulerAfter(args, x, y, step).x, EulerAfter(args, x, y, step).y)

\* C13: once the field loops of an accepted call are over, the buffer holds
\* exactly one segment for each grid point (x_min + i*x_step,
\* y_min + j*(y_step/y_scale)) with x <= x_max and y <= y_max, the points on the
\* right and top edges included, column by column (x outer, y inner); the
\* centre of the j-th segment of a column is at y_min + j*y_step in drawing
\* space; and no segment lies outside the domain.
Segs(buf) == SelectSeq(buf, LAMBDA it : it.kind = "seg")
Columns(a) == Floor(RDiv(xrange(a), a.xstep))
Rows(a) == IF IsInf(ySampleStep(a)) THEN 0 ELSE Floor(RDiv(yrange(a), ySampleStep(a)))
FieldOver == pc \in {"curve", "curve_body", "flush", "done"}
C13_OneSegmentPerGridPoint ==
    (DField /\ Rejection(args) = "none" /\ FieldOver) =>
        LET s == Segs(buffer)
            nx == Columns(args)
            ny == Rows(args)
        IN  /\ Len(s) = (nx + 1) * (ny + 1)
            /\ \A i \in 0 .. nx, j \in 0 .. ny :
                  LET g == s[i * (ny + 1) + j + 1]
                  IN  /\ g.x = GridX(args, i)
                      /\ g.y = GridY(args, j)
                      /\ g.yCenter = RAdd(args.y0, RMul(Z(j), args.ystep))
            /\ \A k \in DOMAIN s :
                  /\ RLeq(args.x0, s[k].x) /\ RLeq(s[k].x, args.xe)
                  /\ RLeq(args.y0, s[k].y) /\ RLeq(s[k].y, args.ye)

====
